---- MODULE Spec2Model ----
(***************************************************************************)
(* A model of the control-plane integration core of the proxy:             *)
(*   - the identity daemon of src/src/app/identity.rs (Daemon::poll, the   *)
(*     refresh-delay computation Config::refresh, the crt_key watch);      *)
(*   - the profile router of src/src/proxy/http/profiles.rs (Recognize,    *)
(*     Stack::make, Service::update_routes / poll_ready / call).           *)
(* Options are sequences of length at most one: <<>> is None and <<x>> is  *)
(* Some(x).  Times are integers; UNIX_EPOCH is 0.                          *)
(***************************************************************************)
EXTENDS Integers, Sequences, FiniteSets

VARIABLES
    \* ---- identity daemon (struct Daemon, identity.rs:33-43) ----
    config,       \* Config: [min_refresh, max_refresh]
    inner,        \* Inner: "ShouldRefresh" | "Pending" | "Waiting"
    delay,        \* deadline of the Delay held by Inner::Waiting (0: none)
    expiry,       \* Daemon.expiry: SystemTime
    crt_key,      \* the value shared by Watch/Store<Option<CrtKey>>
    observers,    \* number of live Watch handles on crt_key
    status,       \* the task: "running" | "done" (poll returned Ready) | "panicked"
    now,          \* the clock
    certified,    \* history: CrtKey of the latest response that passed certify
    \* ---- profile router (struct Service, profiles.rs:326-338) ----
    target,       \* Service.target
    route_stream, \* Service.route_stream: Option<stream>
    routes,       \* Service.router's Recognize.routes
    capacity,     \* capacity given to Router::new
    cache,        \* the router's map: set of [route, stale]
    req,          \* history: the request, if the latest step was a call
    chosen,       \* history: the route recognize returned for it
    served,       \* history: what that call was dispatched to
    taken,        \* history: the tables taken, if the latest step was a poll_ready
    dropped,      \* history: the keys whose services the latest replacement dropped
    inner_ready,  \* whether the shared inner stack below the routes is ready
    polled,       \* history: what poll_ready returned, if the latest step was one
    asked,        \* history: the names get_routes has been called with
    \* ---- functions applied on their own ----
    arg,          \* the input drawn for the function, if any
    result,       \* what the function returned for it, once applied
    heap,         \* the Arc allocations made so far: heap[a] is the table at address a
    pool,         \* the Routes alive: [route, origin, clones]
    \* ---- all ----
    last          \* history: the name of the latest step

daemonVars == <<config, inner, delay, expiry, crt_key, observers, status, now, certified>>
routerVars == <<target, route_stream, routes, capacity, cache, req, chosen, served,
               taken, dropped, inner_ready, polled, asked>>
pureVars == <<arg, result, heap, pool>>
vars == <<daemonVars, routerVars, pureVars, last>>

None == <<>>
Some(x) == <<x>>

Min(a, b) == IF a <= b THEN a ELSE b
Max(a, b) == IF a >= b THEN a ELSE b

(***************************************************************************)
(* Bounds of the model.                                                    *)
(***************************************************************************)
MaxTime == 5        \* the clock runs from 1 to MaxTime
MaxLife == 5        \* a response's valid_until is at most now + MaxLife
MaxRefresh == 3     \* configurations have 0 < min_refresh <= max_refresh <= MaxRefresh
MaxObservers == 2   \* live Watch handles
NumLeaves == 2      \* distinct leaf certificates the service may return

UNIX_EPOCH == 0

Configs ==
    { c \in [min_refresh : 1..MaxRefresh, max_refresh : 1..MaxRefresh] :
        c.min_refresh <= c.max_refresh }

Leaves == 1..NumLeaves

\* CertifyResponse, as far as the daemon reads it: the leaf, the optional
\* valid_until timestamp (seconds, negative before the epoch) and whether the
\* trust anchors accept the certificate.
Responses(t) ==
    [ leaf : Leaves,
      valid_until : {None} \cup { Some(u) : u \in {-1, 0} \cup ((t - 1)..(t + MaxLife)) },
      trusted : BOOLEAN ]

(***************************************************************************)
(* Config::refresh                                                         *)
(***************************************************************************)
\* expiry.duration_since(SystemTime::now()).ok()
duration_since(e, t) == IF e >= t THEN Some(e - t) ELSE None

refresh_no_ceiling(cfg, e, t) ==
    LET d == duration_since(e, t)
    IN  IF d = None THEN cfg.min_refresh
        ELSE LET lifetime == (d[1] * 7) \div 10
             IN  IF lifetime < cfg.min_refresh THEN cfg.min_refresh ELSE lifetime

refresh_whole_lifetime(cfg, e, t) ==
    LET d == duration_since(e, t)
    IN  IF d = None THEN cfg.min_refresh
        ELSE LET lifetime == d[1]
             IN  IF lifetime < cfg.min_refresh THEN cfg.min_refresh
                 ELSE IF cfg.max_refresh < lifetime THEN cfg.max_refresh
                 ELSE lifetime

\* The duration from which Config::refresh builds its Delay.
refresh(cfg, e, t) ==
    LET d == duration_since(e, t)
    IN  IF d = None THEN cfg.min_refresh
        ELSE LET lifetime == (d[1] * 7) \div 10
             IN  IF lifetime < cfg.min_refresh THEN cfg.min_refresh
                 ELSE IF cfg.max_refresh < lifetime THEN cfg.max_refresh
                 ELSE lifetime

\* Delay::new(now + refresh): the deadline.
Delay(cfg, e, t) == t + refresh(cfg, e, t)

(***************************************************************************)
(* Daemon::poll, one action per iteration of its loop                      *)
(***************************************************************************)
\* valid_until.and_then(|d| Result::<SystemTime, Duration>::from(d).ok()):
\* a timestamp before the epoch converts to Err and so to None.
ToSystemTime(vu) == IF vu # None /\ vu[1] >= 0 THEN Some(vu[1]) ELSE None

\* trust_anchors.certify(key, Crt::new(local_name, leaf, intermediates, expiry))
Certify(rsp, e) == IF rsp.trusted THEN Some([leaf |-> rsp.leaf, expiry |-> e]) ELSE None

StoreIsErr_one_left(n) == n <= 1

\* Store::store(..).is_err(): every Watch has been dropped.
StoreIsErr(n) == n = 0

\* Inner::Waiting, the delay is Ready
WaitingFired ==
    /\ status = "running" /\ inner = "Waiting"
    /\ now >= delay
    /\ inner' = "ShouldRefresh" /\ delay' = 0
    /\ last' = "Fired"
    /\ UNCHANGED <<config, expiry, crt_key, observers, status, now, certified, routerVars, pureVars>>

\* Inner::Waiting, the delay is Err: anything but Ok(NotReady) moves on
WaitingTimerError ==
    /\ status = "running" /\ inner = "Waiting"
    /\ inner' = "ShouldRefresh" /\ delay' = 0
    /\ last' = "TimerError"
    /\ UNCHANGED <<config, expiry, crt_key, observers, status, now, certified, routerVars, pureVars>>

\* Inner::ShouldRefresh: token.load().expect("FIXME") panics on a failed load
ShouldRefresh(token_ok) ==
    /\ status = "running" /\ inner = "ShouldRefresh"
    /\ IF token_ok
       THEN inner' = "Pending" /\ status' = status /\ last' = "Certify"
       ELSE inner' = inner /\ status' = "panicked" /\ last' = "TokenFailed"
    /\ UNCHANGED <<config, delay, expiry, crt_key, observers, now, certified, routerVars, pureVars>>

\* Inner::Pending, Err(e)
PendingErr ==
    /\ status = "running" /\ inner = "Pending"
    /\ inner' = "Waiting" /\ delay' = Delay(config, expiry, now)
    /\ last' = "RpcError"
    /\ UNCHANGED <<config, expiry, crt_key, observers, status, now, certified, routerVars, pureVars>>

\* the Daemon and what it shares, as poll reads them
daemon ==
    [config |-> config, inner |-> inner, delay |-> delay, expiry |-> expiry,
     crt_key |-> crt_key, observers |-> observers, status |-> status, now |-> now,
     certified |-> certified, last |-> last]

\* Inner::Pending, Ok(Async::Ready(rsp)): the Daemon one iteration later
pending_ready(d, rsp) ==
    LET vu == ToSystemTime(rsp.valid_until)
    IN  IF vu = None
        THEN [d EXCEPT !.inner = "Waiting",
                       !.delay = Delay(d.config, d.expiry, d.now),
                       !.last = "MissingExpiry"]
        ELSE LET ck == Certify(rsp, vu[1])
             IN  IF ck = None
                 THEN [d EXCEPT !.inner = "Waiting",
                                !.delay = Delay(d.config, d.expiry, d.now),
                                !.last = "Rejected"]
                 ELSE IF StoreIsErr(d.observers)
                 THEN [d EXCEPT !.status = "done",
                                !.certified = ck,
                                !.last = "NoObservers"]
                 ELSE [d EXCEPT !.crt_key = ck,
                                !.expiry = vu[1],
                                !.certified = ck,
                                !.inner = "Waiting",
                                !.delay = Delay(d.config, vu[1], d.now),
                                !.last = "Stored"]

\* the assignment of a poll iteration's result
Becomes(d) ==
    /\ inner' = d.inner /\ delay' = d.delay /\ expiry' = d.expiry
    /\ crt_key' = d.crt_key /\ status' = d.status
    /\ certified' = d.certified /\ last' = d.last
    /\ UNCHANGED <<config, observers, now, routerVars, pureVars>>

\* a rejected certificate is published all the same
PendingOk_publishes_unverified(rsp) ==
    /\ status = "running" /\ inner = "Pending"
    /\ LET d == pending_ready(daemon, rsp)
       IN  Becomes(IF d.last = "Rejected" /\ ~ StoreIsErr(observers)
                   THEN [d EXCEPT !.crt_key =
                            Some([leaf |-> rsp.leaf, expiry |-> ToSystemTime(rsp.valid_until)[1]])]
                   ELSE d)

\* the expiry is stored before the certificate is checked
PendingOk_expiry_before_certify(rsp) ==
    /\ status = "running" /\ inner = "Pending"
    /\ LET d == pending_ready(daemon, rsp)
       IN  Becomes(IF d.last = "Rejected"
                   THEN [d EXCEPT !.expiry = ToSystemTime(rsp.valid_until)[1],
                                  !.delay = Delay(config, ToSystemTime(rsp.valid_until)[1], now)]
                   ELSE d)

\* the expiry is assigned before the store is known to have succeeded
PendingOk_expiry_before_store(rsp) ==
    /\ status = "running" /\ inner = "Pending"
    /\ LET d == pending_ready(daemon, rsp)
       IN  Becomes(IF d.last = "NoObservers"
                   THEN [d EXCEPT !.expiry = ToSystemTime(rsp.valid_until)[1]]
                   ELSE d)

\* Inner::Pending, Ok(Async::Ready(rsp))
PendingOk(rsp) ==
    /\ status = "running" /\ inner = "Pending"
    /\ Becomes(pending_ready(daemon, rsp))

\* the daemon's own steps
DaemonStep ==
    \/ WaitingFired
    \/ WaitingTimerError
    \/ \E token_ok \in BOOLEAN : ShouldRefresh(token_ok)
    \/ PendingErr
    \/ \E rsp \in Responses(now) : PendingOk(rsp)

(***************************************************************************)
(* The daemon's environment: the clock and the holders of the Watch        *)
(***************************************************************************)
Tick ==
    /\ now < MaxTime
    /\ now' = now + 1
    /\ last' = "Tick"
    /\ UNCHANGED <<config, inner, delay, expiry, crt_key, observers, status, certified, routerVars, pureVars>>

\* a Watch handle is dropped
DropObserver ==
    /\ observers > 0
    /\ observers' = observers - 1
    /\ last' = "Drop"
    /\ UNCHANGED <<config, inner, delay, expiry, crt_key, status, now, certified, routerVars, pureVars>>

\* a Watch handle is cloned (only an existing handle can be)
CloneObserver ==
    /\ observers > 0 /\ observers < MaxObservers
    /\ observers' = observers + 1
    /\ last' = "Clone"
    /\ UNCHANGED <<config, inner, delay, expiry, crt_key, status, now, certified, routerVars, pureVars>>

\* identity::new
InitDaemon ==
    /\ config \in Configs
    /\ inner = "ShouldRefresh" /\ delay = 0
    /\ expiry = UNIX_EPOCH
    /\ crt_key = None
    /\ observers = 1
    /\ status = "running"
    /\ now = 1
    /\ certified = None

NextDaemon == DaemonStep \/ Tick \/ DropObserver \/ CloneObserver

(***************************************************************************)
(* Routes and request matching (profiles.rs:44-147)                        *)
(***************************************************************************)
MaxQueue == 2       \* tables the route stream may hold ready at once

\* Labels, ResponseClasses and Retries compare by Arc::ptr_eq, so a Route is
\* modelled by the addresses of its interior tables and its timeout value.
Route(labels, classes) ==
    [labels |-> labels, response_classes |-> classes, retries |-> None, timeout |-> None]

\* Layer.default_route: Route::default(), allocated once by layer()
default_route == Route(10, 11)

Method(m) == [kind |-> "Method", method |-> m, re |-> <<>>, ms |-> <<>>]
Path(re)  == [kind |-> "Path", method |-> "", re |-> re, ms |-> <<>>]
Not(m)    == [kind |-> "Not", method |-> "", re |-> <<>>, ms |-> <<m>>]
All(ms)   == [kind |-> "All", method |-> "", re |-> <<>>, ms |-> ms]
Any(ms)   == [kind |-> "Any", method |-> "", re |-> <<>>, ms |-> ms]

\* Regex::is_match for the anchored literal patterns of the model ("^/a"):
\* the path starts with the pattern's literal.
regex_is_match(re, path) ==
    /\ Len(re) <= Len(path)
    /\ \A i \in 1..Len(re) : re[i] = path[i]

RECURSIVE is_match_vacuous_any(_, _)
is_match_vacuous_any(m, r) ==
    CASE m.kind = "Method" -> r.method = m.method
      [] m.kind = "Path"   -> regex_is_match(m.re, r.path)
      [] m.kind = "Not"    -> ~ is_match_vacuous_any(m.ms[1], r)
      [] m.kind = "All"    -> \A i \in 1..Len(m.ms) : is_match_vacuous_any(m.ms[i], r)
      [] m.kind = "Any"    -> \/ m.ms = <<>>
                              \/ \E i \in 1..Len(m.ms) : is_match_vacuous_any(m.ms[i], r)

RECURSIVE is_match(_, _)
\* RequestMatch::is_match
is_match(m, r) ==
    CASE m.kind = "Method" -> r.method = m.method
      [] m.kind = "Path"   -> regex_is_match(m.re, r.path)
      [] m.kind = "Not"    -> ~ is_match(m.ms[1], r)
      [] m.kind = "All"    -> \A i \in 1..Len(m.ms) : is_match(m.ms[i], r)
      [] m.kind = "Any"    -> \E i \in 1..Len(m.ms) : is_match(m.ms[i], r)

\* WithRoute::with_route: the specialized target, the key of the router's map
with_route(t, route) == [target |-> t, route |-> route]

RECURSIVE recognize_last(_, _)
recognize_last(rec, r) ==
    IF rec.routes = <<>>
    THEN Some(with_route(rec.target, rec.default_route))
    ELSE LET n == Len(rec.routes)
         IN  IF is_match(rec.routes[n].condition, r)
             THEN Some(with_route(rec.target, rec.routes[n].route))
             ELSE recognize_last([rec EXCEPT !.routes = SubSeq(rec.routes, 1, n - 1)], r)

RECURSIVE recognize_without_default(_, _)
recognize_without_default(rec, r) ==
    IF rec.routes = <<>>
    THEN None
    ELSE IF is_match(Head(rec.routes).condition, r)
         THEN Some(with_route(rec.target, Head(rec.routes).route))
         ELSE recognize_without_default([rec EXCEPT !.routes = Tail(rec.routes)], r)

RECURSIVE recognize_fresh_default(_, _)
recognize_fresh_default(rec, r) ==
    IF rec.routes = <<>>
    THEN Some(with_route(rec.target, IF r.method = "GET" THEN Route(40, 41) ELSE Route(50, 51)))
    ELSE IF is_match(Head(rec.routes).condition, r)
         THEN Some(with_route(rec.target, Head(rec.routes).route))
         ELSE recognize_fresh_default([rec EXCEPT !.routes = Tail(rec.routes)], r)

RECURSIVE recognize(_, _)
\* Recognize::recognize, rec = [target, routes, default_route]
recognize(rec, r) ==
    IF rec.routes = <<>>
    THEN Some(with_route(rec.target, rec.default_route))
    ELSE IF is_match(Head(rec.routes).condition, r)
         THEN Some(with_route(rec.target, Head(rec.routes).route))
         ELSE recognize([rec EXCEPT !.routes = Tail(rec.routes)], r)

(***************************************************************************)
(* The inputs of the router                                                *)
(***************************************************************************)
Request(m, p) == [method |-> m, path |-> p]

\* the requests dispatched: GET /a/b, POST /a, GET /c, POST /c
Requests ==
    { Request("GET", <<"/", "a", "/", "b">>), Request("POST", <<"/", "a">>),
      Request("GET", <<"/", "c">>), Request("POST", <<"/", "c">>) }

PathA  == Path(<<"/", "a">>)
PathAB == Path(<<"/", "a", "/", "b">>)
R1 == Route(20, 21)
R2 == Route(30, 31)

Entry(m, route) == [condition |-> m, route |-> route]

\* the tables the profile stream may emit
Tables ==
    { <<>>,
      <<Entry(PathA, R1), Entry(PathAB, R2)>>,
      <<Entry(All(<<Method("GET"), Not(PathA)>>), R2)>>,
      <<Entry(Any(<<>>), R2), Entry(Any(<<PathAB, Method("POST")>>), R1),
        Entry(All(<<>>), R1)>> }

\* targets: the destination name, if any, as its DNS labels
Targets ==
    { [dst |-> None],
      [dst |-> Some(<<"web", "svc">>)],
      [dst |-> Some(<<"db", "svc">>)],
      [dst |-> Some(<<"example", "com">>)] }

\* Stack.suffixes
suffixes == { <<"svc">> }

\* dns::Suffix::contains: the name ends with the suffix's labels
suffix_contains(s, name) ==
    /\ Len(s) <= Len(name)
    /\ \A i \in 1..Len(s) : s[i] = name[Len(name) - Len(s) + i]

NewStream == [ready |-> <<>>, ended |-> FALSE]

\* GetRoutes::get_routes: the watcher has a profile stream for some names only
get_routes(name) ==
    IF name \in { <<"web", "svc">>, <<"example", "com">> } THEN Some(NewStream) ELSE None

(***************************************************************************)
(* Stack::make and the Service                                             *)
(***************************************************************************)
\* Router::new(recognize, stack, capacity, max_idle_age): an empty map
Router_new(rs, cap) == [routes |-> rs, capacity |-> cap, cache |-> {}]

make_without_suffix_filter(t) ==
    LET router == Router_new(<<>>, 1)
    IN  [target |-> t, route_stream |-> IF t.dst # None THEN get_routes(t.dst[1]) ELSE None,
         routes |-> router.routes, capacity |-> router.capacity, cache |-> router.cache,
         asked |-> IF t.dst # None THEN {t.dst[1]} ELSE {}]

\* Stack::make: the Service for a target, and the names get_routes was asked for
make(t) ==
    LET router == Router_new(<<>>, 1)
        stream == IF t.dst # None
                  THEN IF \E s \in suffixes : suffix_contains(s, t.dst[1])
                       THEN get_routes(t.dst[1])
                       ELSE None
                  ELSE None
    IN  [target |-> t, route_stream |-> stream, routes |-> router.routes,
         capacity |-> router.capacity, cache |-> router.cache,
         asked |-> IF t.dst # None /\ \E s \in suffixes : suffix_contains(s, t.dst[1])
                   THEN {t.dst[1]} ELSE {}]

update_routes_keeps_map(self, new_routes) ==
    [self EXCEPT !.routes = new_routes, !.capacity = Len(new_routes) + 1]

update_routes_no_default_slot(self, new_routes) ==
    [self EXCEPT !.routes = new_routes, !.capacity = Len(new_routes), !.cache = {}]

update_routes_one_slot(self, new_routes) ==
    [self EXCEPT !.routes = new_routes, !.capacity = 1, !.cache = {}]

update_routes_extends_table(self, new_routes) ==
    [self EXCEPT !.routes = self.routes \o new_routes,
                 !.capacity = Len(self.routes) + Len(new_routes) + 1, !.cache = {}]

\* Service::update_routes: a new Router for the new table
update_routes(self, new_routes) ==
    LET slots == Len(new_routes) + 1
        router == Router_new(new_routes, slots)
    IN  [self EXCEPT !.routes = router.routes, !.capacity = router.capacity,
                     !.cache = router.cache]

\* Stream::poll of the route stream: [async, item, stream]
stream_poll(s) ==
    IF s.ready # <<>>
    THEN [async |-> "Ready", item |-> Some(Head(s.ready)),
          stream |-> [s EXCEPT !.ready = Tail(s.ready)]]
    ELSE IF s.ended
    THEN [async |-> "Ready", item |-> None, stream |-> s]
    ELSE [async |-> "NotReady", item |-> None, stream |-> s]

\* Service::poll_route_stream: None without a stream
poll_route_stream(self) ==
    IF self.route_stream = None THEN None ELSE Some(stream_poll(self.route_stream[1]))

poll_ready_once(self) ==
    LET p == poll_route_stream(self)
    IN  IF p # None /\ p[1].async = "Ready" /\ p[1].item # None
        THEN update_routes([self EXCEPT !.route_stream = Some(p[1].stream)], p[1].item[1])
        ELSE self

RECURSIVE poll_ready_clears_on_end(_)
poll_ready_clears_on_end(self) ==
    LET p == poll_route_stream(self)
    IN  IF p # None /\ p[1].async = "Ready" /\ p[1].item # None
        THEN poll_ready_clears_on_end(
                 update_routes([self EXCEPT !.route_stream = Some(p[1].stream)], p[1].item[1]))
        ELSE IF p # None /\ p[1].async = "Ready"
        THEN update_routes(self, <<>>)
        ELSE self

RECURSIVE poll_ready(_)
\* Service::poll_ready: the while-let loop; the Service it leaves
poll_ready(self) ==
    LET p == poll_route_stream(self)
    IN  IF p # None /\ p[1].async = "Ready" /\ p[1].item # None
        THEN poll_ready(update_routes([self EXCEPT !.route_stream = Some(p[1].stream)],
                                      p[1].item[1]))
        ELSE self

\* rt::Router::call: recognize, then look up or materialize the specialized
\* service within the map's capacity.  [cache, result, key, stale, made]
Router_call(self, r) ==
    LET k == recognize([target |-> self.target, routes |-> self.routes,
                        default_route |-> default_route], r)
    IN  IF k = None
        THEN [cache |-> self.cache, result |-> "NotRecognized", key |-> None,
              stale |-> FALSE, made |-> FALSE]
        ELSE IF \E e \in self.cache : e.key = k[1]
        THEN LET e == CHOOSE e \in self.cache : e.key = k[1]
             IN  [cache |-> self.cache, result |-> "Ok", key |-> k,
                  stale |-> e.stale, made |-> FALSE]
        ELSE IF Cardinality(self.cache) >= self.capacity
        THEN [cache |-> self.cache, result |-> "NoCapacity", key |-> k,
              stale |-> FALSE, made |-> FALSE]
        ELSE [cache |-> self.cache \cup {[key |-> k[1], stale |-> FALSE]},
              result |-> "Ok", key |-> k, stale |-> FALSE, made |-> TRUE]

service == [target |-> target, route_stream |-> route_stream, routes |-> routes,
            capacity |-> capacity, cache |-> cache]

poll_ready_result_backpressure(self, rdy) == IF rdy THEN "Ready" ELSE "NotReady"

\* Service::poll_ready's return value, Ok(Async::Ready(())): neither the
\* Service it leaves nor the readiness of the inner stack is consulted
poll_ready_result(self, rdy) == "Ready"

\* the tables the stream has ready
StreamReady == IF route_stream = None THEN <<>> ELSE route_stream[1].ready

\* Service::poll_ready.  History: the services that survive a replacement of
\* the table are marked stale.
PollReady ==
    LET s == poll_ready(service)
    IN  /\ route_stream' = s.route_stream
        /\ routes' = s.routes
        /\ capacity' = s.capacity
        /\ cache' = IF StreamReady # <<>>
                    THEN { [e EXCEPT !.stale = TRUE] : e \in s.cache }
                    ELSE s.cache
        /\ taken' = StreamReady
        /\ dropped' = IF StreamReady # <<>> THEN { e.key : e \in cache } ELSE dropped
        /\ polled' = Some(poll_ready_result(s, inner_ready))
        /\ req' = None /\ chosen' = None /\ served' = None
        /\ last' = "poll_ready"
        /\ UNCHANGED <<target, inner_ready, asked, daemonVars, pureVars>>

\* Service::call.  The future it returns resolves to the specialized
\* service's response or error; error is what the caller observes.
Call(r) ==
    LET c == Router_call(service, r)
    IN  /\ cache' = c.cache
        /\ req' = Some(r)
        /\ chosen' = IF c.key = None THEN None ELSE Some(c.key[1].route)
        /\ \E inner_ok \in BOOLEAN :
               served' = Some([result |-> c.result, stale |-> c.stale, made |-> c.made,
                               error |-> IF c.result # "Ok" THEN c.result
                                         ELSE IF inner_ok THEN "None" ELSE "Inner"])
        /\ taken' = <<>> /\ polled' = None
        /\ last' = "call"
        /\ UNCHANGED <<target, route_stream, routes, capacity, dropped, inner_ready, asked,
                       daemonVars, pureVars>>

\* the profile watcher has a new table ready
StreamEmit(t) ==
    /\ route_stream # None
    /\ ~ route_stream[1].ended
    /\ Len(route_stream[1].ready) < MaxQueue
    /\ route_stream' = Some([route_stream[1] EXCEPT !.ready = Append(@, t)])
    /\ req' = None /\ chosen' = None /\ served' = None /\ taken' = <<>> /\ polled' = None
    /\ last' = "emit"
    /\ UNCHANGED <<target, routes, capacity, cache, dropped, inner_ready, asked, daemonVars, pureVars>>

\* the stream ends: poll yields Ready(None) once the ready tables are taken
StreamEnd ==
    /\ route_stream # None
    /\ ~ route_stream[1].ended
    /\ route_stream' = Some([route_stream[1] EXCEPT !.ended = TRUE])
    /\ req' = None /\ chosen' = None /\ served' = None /\ taken' = <<>> /\ polled' = None
    /\ last' = "end"
    /\ UNCHANGED <<target, routes, capacity, cache, dropped, inner_ready, asked, daemonVars, pureVars>>

\* the shared inner stack becomes ready, or stops being ready
InnerReadiness ==
    /\ inner_ready' = ~ inner_ready
    /\ req' = None /\ chosen' = None /\ served' = None /\ taken' = <<>> /\ polled' = None
    /\ last' = "inner"
    /\ UNCHANGED <<target, route_stream, routes, capacity, cache, dropped, asked, daemonVars, pureVars>>

InitRouterFor(t) ==
    LET s == make(t)
    IN  /\ target = s.target
        /\ route_stream = s.route_stream
        /\ routes = s.routes
        /\ capacity = s.capacity
        /\ cache = s.cache
        /\ req = None /\ chosen = None /\ served = None
        /\ taken = <<>> /\ dropped = {}
        /\ inner_ready = TRUE /\ polled = None
        /\ asked = s.asked

InitRouter == \E t \in Targets : InitRouterFor(t)

NextRouter ==
    \/ PollReady
    \/ \E r \in Requests : Call(r)
    \/ \E t \in Tables : StreamEmit(t)
    \/ StreamEnd
    \/ InnerReadiness

(***************************************************************************)
(* Specifications                                                          *)
(***************************************************************************)
\* The daemon and the router share no state; their composition is Spec, and
\* each is checked on its own under SpecIdentity and SpecProfiles.
InitPure == arg = None /\ result = None /\ heap = <<>> /\ pool = <<>>

Init == InitDaemon /\ InitRouter /\ InitPure /\ last = "new"
Next == NextDaemon \/ NextRouter
Spec == Init /\ [][Next]_vars

\* the identity daemon alone, beside a router that is not used
InitIdentity == InitDaemon /\ InitRouterFor([dst |-> None]) /\ InitPure /\ last = "new"
SpecIdentity == InitIdentity /\ [][NextDaemon]_vars

\* the router alone, beside a daemon that has not been polled
InitProfiles ==
    /\ InitDaemon /\ config = [min_refresh |-> 1, max_refresh |-> 1]
    /\ InitRouter /\ InitPure /\ last = "new"
SpecProfiles == InitProfiles /\ [][NextRouter]_vars

(***************************************************************************)
(* RequestMatch::is_match, Route::new and Route's equality on their own    *)
(***************************************************************************)
MaxArity == 2       \* children of a conjunction or disjunction of atoms
NumKeys == 3        \* distinct label keys; key k stands for the k-th string in order
NumVals == 2        \* distinct label values
MaxLabels == 3      \* label pairs given to Route::new
MaxPool == 4        \* Routes alive at once

\* the sequences over S of length at most n
RECURSIVE SeqsUpTo(_, _)
SeqsUpTo(S, n) ==
    IF n = 0 THEN { <<>> }
    ELSE LET P == SeqsUpTo(S, n - 1)
         IN  P \cup { Append(p, x) : p \in P, x \in S }

Atoms == { Method("GET"), PathA, PathAB }

\* negations, conjunctions and disjunctions of atoms
Flat ==
    Atoms \cup { Not(a) : a \in Atoms }
          \cup { All(ms) : ms \in SeqsUpTo(Atoms, MaxArity) }
          \cup { Any(ms) : ms \in SeqsUpTo(Atoms, MaxArity) }

\* one level deeper: negations of those, and conjunctions and disjunctions of
\* at most a pair of them
Nested ==
    Flat \cup { Not(m) : m \in Flat }
         \cup { All(ms) : ms \in SeqsUpTo(Flat, 2) }
         \cup { Any(ms) : ms \in SeqsUpTo(Flat, 2) }

\* m.is_match(&req) is evaluated
ApplyIsMatch ==
    /\ arg # None /\ result = None
    /\ result' = Some(is_match(arg[1].m, arg[1].r))
    /\ last' = "is_match"
    /\ UNCHANGED <<arg, heap, pool, daemonVars, routerVars>>

Quiet ==
    /\ InitDaemon /\ config = [min_refresh |-> 1, max_refresh |-> 1]
    /\ InitRouterFor([dst |-> None]) /\ last = "new"

InitMatch ==
    /\ Quiet
    /\ arg \in { Some([m |-> m, r |-> r]) : m \in Nested, r \in Requests }
    /\ result = None /\ heap = <<>> /\ pool = <<>>
SpecMatch == InitMatch /\ [][ApplyIsMatch]_vars

\* the label pairs given to Route::new: <<key, value>>
LabelPairs == (1..NumKeys) \X (1..NumVals)
LabelInputs == SeqsUpTo(LabelPairs, MaxLabels)

\* Vec::insert of p behind every pair whose key is not greater
RECURSIVE insert_sorted(_, _)
insert_sorted(s, p) ==
    IF s = <<>> \/ s[Len(s)][1] <= p[1]
    THEN Append(s, p)
    ELSE Append(insert_sorted(SubSeq(s, 1, Len(s) - 1), p), s[Len(s)])

sort_by_input_order(pairs) == pairs

RECURSIVE sort_by(_)
\* pairs.sort_by(|(k0, _), (k1, _)| k0.cmp(k1)): stable, by key only
sort_by(pairs) ==
    IF pairs = <<>> THEN <<>>
    ELSE insert_sorted(sort_by(SubSeq(pairs, 1, Len(pairs) - 1)), pairs[Len(pairs)])

\* IndexMap::insert: a new key goes last, a known key keeps its place and
\* takes the new value
IndexMap_insert(map, p) ==
    IF \E i \in 1..Len(map) : map[i][1] = p[1]
    THEN [i \in 1..Len(map) |-> IF map[i][1] = p[1] THEN p ELSE map[i]]
    ELSE Append(map, p)

RECURSIVE from_iter(_)
\* IndexMap::from_iter: the map in iteration order
from_iter(pairs) ==
    IF pairs = <<>> THEN <<>>
    ELSE IndexMap_insert(from_iter(SubSeq(pairs, 1, Len(pairs) - 1)), pairs[Len(pairs)])

\* Arc::new: the heap with the value at a fresh address, the last one
Arc_new(h, v) == Append(h, v)

\* Route::new: [heap, route]
Route_new(h, label_iter, response_classes) ==
    LET h1 == Arc_new(h, from_iter(sort_by(label_iter)))
        h2 == Arc_new(h1, response_classes)
    IN  [heap |-> h2, route |-> Route(Len(h1), Len(h2))]

\* Route::default: an empty map and an empty Vec, each in an Arc of its own
Route_default(h) ==
    LET h1 == Arc_new(h, <<>>)
        h2 == Arc_new(h1, <<>>)
    IN  [heap |-> h2, route |-> Route(Len(h1), Len(h2))]

\* Route::clone: the Arcs are shared
Route_clone(route) == route

\* Route::labels
labels(h, route) == h[route.labels]

Route_eq_by_contents(h, a, b) ==
    /\ h[a.labels] = h[b.labels]
    /\ h[a.response_classes] = h[b.response_classes]
    /\ a.retries = b.retries /\ a.timeout = b.timeout

\* Route's derived PartialEq over the Arc::ptr_eq of Labels, ResponseClasses
\* and Retries
Route_eq(h, a, b) ==
    /\ a.labels = b.labels
    /\ a.response_classes = b.response_classes
    /\ a.retries = b.retries /\ a.timeout = b.timeout

\* Route::new is applied to the label pairs, and the labels read back
ApplyRouteNew ==
    /\ arg # None /\ result = None
    /\ LET made == Route_new(heap, arg[1], <<>>)
       IN  /\ heap' = made.heap
           /\ result' = Some(labels(made.heap, made.route))
    /\ last' = "Route::new"
    /\ UNCHANGED <<arg, pool, daemonVars, routerVars>>

InitLabels ==
    /\ Quiet
    /\ arg \in { Some(pairs) : pairs \in LabelInputs }
    /\ result = None /\ heap = <<>> /\ pool = <<>>
SpecLabels == InitLabels /\ [][ApplyRouteNew]_vars

\* a Route is built by Route::new; origin numbers the constructions
RouteNew(label_iter) ==
    /\ Len(pool) < MaxPool
    /\ LET made == Route_new(heap, label_iter, <<>>)
       IN  /\ heap' = made.heap
           /\ pool' = Append(pool, [route |-> made.route, origin |-> Len(pool) + 1,
                                    clones |-> 0])
    /\ last' = "Route::new"
    /\ UNCHANGED <<arg, result, daemonVars, routerVars>>

\* a Route is built by Route::default
RouteDefault ==
    /\ Len(pool) < MaxPool
    /\ LET made == Route_default(heap)
       IN  /\ heap' = made.heap
           /\ pool' = Append(pool, [route |-> made.route, origin |-> Len(pool) + 1,
                                    clones |-> 0])
    /\ last' = "Route::default"
    /\ UNCHANGED <<arg, result, daemonVars, routerVars>>

\* the i-th Route is cloned
RouteClone(i) ==
    /\ Len(pool) < MaxPool
    /\ pool' = Append(pool, [route |-> Route_clone(pool[i].route),
                             origin |-> pool[i].origin, clones |-> pool[i].clones + 1])
    /\ last' = "Route::clone"
    /\ UNCHANGED <<arg, result, heap, daemonVars, routerVars>>

InitRoutes == Quiet /\ InitPure
NextRoutes ==
    \/ \E label_iter \in { <<>>, << <<1, 1>> >> } : RouteNew(label_iter)
    \/ RouteDefault
    \/ \E i \in 1..Len(pool) : RouteClone(i)
SpecRoutes == InitRoutes /\ [][NextRoutes]_vars

(***************************************************************************)
(* Properties of the identity daemon                                       *)
(***************************************************************************)
\* the steps that arm a Delay, and those among them that follow a failure
ArmEvents == {"RpcError", "MissingExpiry", "Rejected", "Stored"}
FailureEvents == {"RpcError", "MissingExpiry", "Rejected"}

Clamp(x, lo, hi) == Max(lo, Min(hi, x))

\* the delay the specification schedules for an expiry e at time t: 70% of the
\* remaining lifetime (in whole clock units) clamped into
\* [min_refresh, max_refresh]; min_refresh when e is not after t
ScheduledFor(e, t) ==
    IF e <= t THEN config.min_refresh
    ELSE Clamp((7 * (e - t)) \div 10, config.min_refresh, config.max_refresh)

\* C3: as long as the watch can be observed (a handle exists, or the daemon has
\* not completed), it holds the CrtKey of the most recent response that passed
\* certification, None if none has passed; and a step that handles a failed
\* response (RPC error, missing valid_until, rejected certificate) leaves the
\* value as it was.
WatchHoldsLatestCertified ==
    /\ [](observers > 0 \/ status # "done" => crt_key = certified)
    /\ [][last' \in FailureEvents /\ inner = "Pending" => crt_key' = crt_key]_vars

\* C3 witness: a certificate was published, and a later response that failed
\* has left it in the watch.
WatchKeptAfterFailure ==
    /\ crt_key # None /\ crt_key = certified
    /\ last = "Rejected" /\ observers > 0

\* C4: in the state in which a Delay has just been armed (whatever the
\* outcome that armed it), min_refresh <= deadline - now <= max_refresh.
DelayWithinBounds ==
    last \in ArmEvents =>
        /\ inner = "Waiting"
        /\ config.min_refresh <= delay - now
        /\ delay - now <= config.max_refresh

\* C4 witness: a lifetime whose 70% exceeds max_refresh was armed at exactly
\* max_refresh, under a configuration with min_refresh < max_refresh.
DelayArmedAtCeiling ==
    /\ last = "Stored"
    /\ config.min_refresh < config.max_refresh
    /\ (7 * (expiry - now)) \div 10 > config.max_refresh
    /\ delay - now = config.max_refresh

\* C5: right after a response with valid_until = t has been certified and
\* stored, the armed delay is clamp(7*(t - now)/10, min_refresh, max_refresh),
\* and min_refresh when t is not after now.
RefreshAtSeventyPercent ==
    last = "Stored" => delay - now = ScheduledFor(crt_key[1].expiry, now)

\* C5 witness: a stored certificate whose delay lies strictly between the
\* bounds and is shorter than its remaining lifetime.
RefreshStrictlyInside ==
    /\ last = "Stored"
    /\ config.min_refresh < delay - now
    /\ delay - now < config.max_refresh
    /\ delay - now < crt_key[1].expiry - now

\* C6: a step that handles an RPC error, a missing or unconvertible
\* valid_until, or a rejected certificate leaves the daemon running, leaves the
\* watch and the stored expiry unchanged, and moves to Waiting with the delay
\* scheduled for the stored expiry, which is min_refresh while no certificate
\* has been stored.
FailuresAreNotFatal ==
    [][last' \in FailureEvents /\ inner = "Pending" =>
          /\ status' = "running"
          /\ crt_key' = crt_key
          /\ expiry' = expiry
          /\ inner' = "Waiting"
          /\ delay' - now' = ScheduledFor(expiry, now)
          /\ (crt_key = None => delay' - now' = config.min_refresh)]_vars

\* C6 witness: a certificate was rejected while an earlier one is stored, and
\* the delay armed from the stored expiry is longer than min_refresh.
RejectedKeepsStoredExpiry ==
    /\ last = "Rejected" /\ status = "running" /\ inner = "Waiting"
    /\ crt_key # None /\ expiry = crt_key[1].expiry
    /\ delay - now > config.min_refresh

\* C7: the daemon is completed only while no observer exists, and the step
\* that completes it is a store that found no observer; no other step does.
CompletesOnlyWithoutObservers ==
    /\ [](status = "done" => observers = 0)
    /\ [][status # "done" /\ status' = "done" =>
            inner = "Pending" /\ observers = 0 /\ last' = "NoObservers"]_vars

\* C7 witness: the daemon has completed on a store without observers.
CompletedOnStore == status = "done" /\ last = "NoObservers" /\ observers = 0

\* C8: once every observer is gone, a running daemon publishes no further
\* value and stops in no other way than by completing normally (which its
\* eventual normal termination requires).
CancelledDaemonTerminates ==
    [][observers = 0 /\ status = "running" =>
          /\ crt_key' = crt_key
          /\ status' \in {"running", "done"}]_vars

\* C9: a failed TokenSource.load() in ShouldRefresh is a failed attempt like
\* any other: the daemon keeps running, the watch and the stored expiry are
\* unchanged, and a refresh delay is armed.
TokenFailureRearms ==
    [][last' = "TokenFailed" /\ status = "running" =>
          /\ status' = "running"
          /\ inner' = "Waiting"
          /\ crt_key' = crt_key
          /\ expiry' = expiry]_vars

(***************************************************************************)
(* Properties of the profile router                                        *)
(***************************************************************************)
\* the positions of the table whose condition matches the request
Matching(rs, r) == { i \in 1..Len(rs) : is_match(rs[i].condition, r) }

\* the route of the first matching pair, in table order, else the default
FirstMatch(rs, r) ==
    IF Matching(rs, r) = {} THEN default_route
    ELSE rs[CHOOSE i \in Matching(rs, r) : \A j \in Matching(rs, r) : i <= j].route

\* C1: for the installed table and every request, recognize yields the key of
\* the route of the first matching pair, and of the default route if no pair
\* matches; and the route a call was recognized to is that route.
RecognizePicksFirstMatch ==
    /\ \A r \in Requests :
          recognize([target |-> target, routes |-> routes,
                     default_route |-> default_route], r)
            = Some(with_route(target, FirstMatch(routes, r)))
    /\ req # None => chosen = Some(FirstMatch(routes, req[1]))

\* C1 witness: a call whose request matches two pairs with different routes
\* was recognized to the earlier one.
EarlierPairWon ==
    /\ req # None
    /\ \E i, j \in Matching(routes, req[1]) :
          /\ i < j
          /\ routes[i].route # routes[j].route
          /\ chosen = Some(routes[i].route)

\* C2: a call is never dispatched to a specialized service that was
\* materialized before the latest replacement of the table.
NoStaleDispatch ==
    /\ \A e \in cache : ~ e.stale
    /\ served # None /\ served[1].result = "Ok" => ~ served[1].stale

\* C2 witness: after a replacement that dropped the service of a key, a call
\* recognized to that same key materialized a new service.
RematerializedAfterUpdate ==
    /\ served # None /\ served[1].result = "Ok" /\ served[1].made
    /\ with_route(target, chosen[1]) \in dropped

\* C10: poll_ready leaves the stream with no table ready and installs the
\* last of the tables the stream had ready, or keeps the installed table if
\* it had none.
PollReadyInstallsLast ==
    [][last' = "poll_ready" =>
          /\ StreamReady' = <<>>
          /\ routes' = IF StreamReady = <<>> THEN routes
                       ELSE StreamReady[Len(StreamReady)]]_vars

\* C10 witness: poll_ready took two different tables in one tick and the
\* second is installed.
TwoUpdatesCollapsed ==
    /\ last = "poll_ready" /\ Len(taken) = 2
    /\ taken[1] # taken[2]
    /\ routes = taken[2]

\* C11: poll_ready returns Ready, never NotReady or an error, whatever the
\* route stream did (absent, pending, tables taken, ended) and whether or not
\* the inner stack is ready.
PollReadyAlwaysReady ==
    /\ polled # None => polled = Some("Ready")
    /\ last = "poll_ready" => polled = Some("Ready")

\* C11 witness: poll_ready returned Ready on an ended stream while the inner
\* stack was not ready.
ReadyDespiteBackpressure ==
    /\ last = "poll_ready" /\ polled = Some("Ready")
    /\ ~ inner_ready
    /\ route_stream # None /\ route_stream[1].ended

\* the recognizer of the installed table
Recognizer(rs) == [target |-> target, routes |-> rs, default_route |-> default_route]

\* the keys the table's pairs and the default route stand for
KeysOf(rs) ==
    { with_route(target, rs[i].route) : i \in 1..Len(rs) }
        \cup { with_route(target, default_route) }

\* the keys the recognizer produces for the requests
ProducibleKeys(rs) == { recognize(Recognizer(rs), r)[1] : r \in Requests }

\* C12: the capacity of the specialized-service map is the length of the
\* installed table plus one: 1 at construction, routes.len() + 1 after every
\* update, an update to the empty table included.
CapacityIsLenPlusOne == capacity = Len(routes) + 1

\* C12 witness: poll_ready has replaced a table whose services were in the map
\* by the empty table, and the capacity is back to 1.
CapacityAfterEmptyUpdate ==
    /\ last = "poll_ready" /\ taken # <<>>
    /\ dropped # {}
    /\ routes = <<>> /\ capacity = 1

\* C13 (as stated): the capacity is exactly the number of distinct keys the
\* recognizer can produce for the installed table.
CapacityIsProducibleKeys == capacity = Cardinality(ProducibleKeys(routes))

\* C13 (amended): the capacity is at least the number of distinct keys of the
\* installed table, and every key the recognizer produces is one of them: a
\* map of that capacity has a slot for every key dispatches can ask for.
CapacityCoversKeys ==
    /\ Cardinality(KeysOf(routes)) <= capacity
    /\ ProducibleKeys(routes) \subseteq KeysOf(routes)
    /\ Cardinality(ProducibleKeys(routes)) <= capacity

\* C13 witness: poll_ready has installed a table two of whose pairs hold the
\* same Route, so the capacity exceeds the number of its distinct keys.
SpareSlots ==
    /\ last = "poll_ready" /\ taken # <<>>
    /\ Cardinality(KeysOf(routes)) < capacity
    /\ \E i, j \in 1..Len(routes) : i # j /\ routes[i].route = routes[j].route

\* C14: every dispatch sees one complete table and the map built for it: the
\* installed table is always one whole table of the stream (or the initial
\* empty one), every service in the map was materialized for a key of that
\* table after it was installed, and the route of a dispatch is a route of it.
TableAndMapAgree ==
    /\ routes \in Tables
    /\ capacity = Len(routes) + 1
    /\ \A e \in cache : e.key \in KeysOf(routes) /\ ~ e.stale
    /\ req # None /\ served[1].result = "Ok" =>
           /\ with_route(target, chosen[1]) \in KeysOf(routes)
           /\ with_route(target, chosen[1]) \in { e.key : e \in cache }

\* C14 witness: a request dispatched after one non-empty table replaced
\* another whose services were dropped.
DispatchAfterReplacement ==
    /\ req # None /\ served[1].result = "Ok" /\ served[1].made
    /\ dropped # {} /\ routes # <<>>
    /\ with_route(target, chosen[1]) \notin dropped

RECURSIVE Holds(_, _)
Holds(m, r) ==
    LET holding == { i \in 1..Len(m.ms) : Holds(m.ms[i], r) }
    IN  CASE m.kind = "Method" -> m.method = r.method
          [] m.kind = "Path"   -> regex_is_match(m.re, r.path)
          [] m.kind = "Not"    -> holding = {}
          [] m.kind = "All"    -> Cardinality(holding) = Len(m.ms)
          [] m.kind = "Any"    -> Cardinality(holding) > 0

\* C16: All([]) matches every request and Any([]) none; Not negates its
\* child, All is the conjunction and Any the disjunction of the children, at
\* every nesting depth.
IsMatchIsBooleanAlgebra ==
    result # None =>
        LET m == arg[1].m
            r == arg[1].r
        IN  /\ m = All(<<>>) => result[1] = TRUE
            /\ m = Any(<<>>) => result[1] = FALSE
            /\ m.kind = "Not" => result[1] = ~ is_match(m.ms[1], r)
            /\ m.kind = "All" => result[1] = \A i \in 1..Len(m.ms) : Holds(m.ms[i], r)
            /\ m.kind = "Any" => result[1] = \E i \in 1..Len(m.ms) : Holds(m.ms[i], r)
            /\ result[1] = Holds(m, r)

\* C16 witness: Any([Any([]), All([])]) matched, through its second child.
EmptyCompositesNested ==
    /\ arg # None /\ arg[1].m = Any(<< Any(<<>>), All(<<>>) >>)
    /\ result = Some(TRUE)

\* the orders the pairs of an input can be supplied in
Orders(pairs) ==
    { [i \in 1..Len(pairs) |-> pairs[f[i]]] :
        f \in { g \in [1..Len(pairs) -> 1..Len(pairs)] :
                  \A i, j \in 1..Len(pairs) : g[i] = g[j] => i = j } }

KeysIn(pairs) == { pairs[i][1] : i \in 1..Len(pairs) }
DistinctKeys(pairs) == Cardinality(KeysIn(pairs)) = Len(pairs)

\* C17 (as stated): the labels are the same for every order the input pairs
\* are supplied in.
LabelsIgnoreInputOrder ==
    result # None =>
        \A q \in Orders(arg[1]) : labels(Route_new(<<>>, q, <<>>).heap,
                                         Route_new(<<>>, q, <<>>).route) = result[1]

\* C17 (amended): the labels iterate in strictly ascending key order and hold
\* exactly the keys supplied; when the keys supplied are pairwise distinct
\* they hold exactly the pairs supplied and are the same for every input
\* order.
LabelsSortedByKey ==
    result # None =>
        LET out == result[1]
        IN  /\ \A i \in 1..(Len(out) - 1) : out[i][1] < out[i + 1][1]
            /\ KeysIn(out) = KeysIn(arg[1])
            /\ DistinctKeys(arg[1]) =>
                   /\ { out[i] : i \in 1..Len(out) } = { arg[1][i] : i \in 1..Len(arg[1]) }
                   /\ \A q \in Orders(arg[1]) :
                          labels(Route_new(<<>>, q, <<>>).heap,
                                 Route_new(<<>>, q, <<>>).route) = out

\* C17 witness: three pairs supplied in descending key order came back in
\* ascending order.
DescendingInputSorted ==
    /\ arg = Some(<< <<3, 1>>, <<2, 2>>, <<1, 1>> >>)
    /\ result = Some(<< <<1, 1>>, <<2, 2>>, <<3, 1>> >>)

\* C18: two Routes are equal exactly when one construction made both: a clone
\* equals its original through any number of clones, and Routes built
\* separately, two Route::default() included, are unequal whatever they hold.
RouteEqIsIdentity ==
    \A i, j \in 1..Len(pool) :
        Route_eq(heap, pool[i].route, pool[j].route) <=> pool[i].origin = pool[j].origin

\* C18 witness: two Route::default() values with identical contents are
\* unequal, while a clone of a clone of the first equals it.
DefaultsDifferClonesAgree ==
    \E i, j, k \in 1..Len(pool) :
        /\ pool[i].origin # pool[j].origin
        /\ labels(heap, pool[i].route) = <<>> /\ labels(heap, pool[j].route) = <<>>
        /\ heap[pool[i].route.response_classes] = heap[pool[j].route.response_classes]
        /\ ~ Route_eq(heap, pool[i].route, pool[j].route)
        /\ pool[k].origin = pool[i].origin /\ pool[k].clones = 2
        /\ Route_eq(heap, pool[k].route, pool[i].route)

\* the target has a destination whose name one of the suffixes contains
InSuffixes(t) == t.dst # None /\ \E s \in suffixes : suffix_contains(s, t.dst[1])

\* C19: the router holds a route stream exactly when its target has a
\* destination inside the configured suffixes for which get_routes returns a
\* stream; for a target without destination or outside the suffixes
\* get_routes is never called.
StreamOnlyForSuffixedDestination ==
    /\ route_stream # None <=> (InSuffixes(target) /\ get_routes(target.dst[1]) # None)
    /\ ~ InSuffixes(target) => asked = {}
    /\ InSuffixes(target) => asked = { target.dst[1] }

\* C19 witness: a router whose destination is inside the suffixes asked for
\* its routes and has installed a table from the stream it got.
StreamHeldAndUsed ==
    /\ route_stream # None /\ asked = { target.dst[1] }
    /\ routes # <<>> /\ last = "poll_ready"

\* C20: the daemon only moves ShouldRefresh -> Pending (the Certify RPC is
\* issued), Pending -> Waiting, Pending -> terminated (poll returns Ready) and
\* Waiting -> ShouldRefresh; no step leaves the three states any other way.
DaemonFollowsStateMachine ==
    [][ <<inner, status>>' # <<inner, status>> =>
          /\ status = "running"
          /\ \/ inner = "ShouldRefresh" /\ inner' = "Pending" /\ status' = "running"
             \/ inner = "Pending" /\ inner' = "Waiting" /\ status' = "running"
             \/ inner = "Pending" /\ inner' = "Pending" /\ status' = "done"
             \/ inner = "Waiting" /\ inner' = "ShouldRefresh" /\ status' = "running" ]_vars

\* C21: between two updates, requests recognized to the same route, the
\* default route included, have one key and one specialized service: a call
\* materializes a service only for a key the map does not hold, otherwise it
\* leaves the map as it is, and it never removes a service.
ServiceReusedPerKey ==
    [][ last' = "call" =>
          LET k == with_route(target, chosen'[1])
              had == \E e \in cache : e.key = k
          IN  /\ \A r \in Requests :
                     FirstMatch(routes, r) = FirstMatch(routes, req'[1])
                         => recognize(Recognizer(routes), r) = Some(k)
              /\ cache \subseteq cache'
              /\ served'[1].made <=> ~ had
              /\ had => cache' = cache
              /\ Cardinality({ e \in cache' : e.key = k }) = 1 ]_vars

\* C21 witness: under a non-empty table a request that fell through to the
\* default route was dispatched to the service an earlier request had
\* materialized for it.
DefaultServiceReused ==
    /\ req # None /\ routes # <<>>
    /\ Matching(routes, req[1]) = {}
    /\ chosen = Some(default_route)
    /\ served[1].result = "Ok" /\ ~ served[1].made

\* C22 (as stated): the stored expiry is UNIX_EPOCH exactly as long as the
\* watch holds None.
ExpiryEpochIffWatchEmpty == (expiry = UNIX_EPOCH) <=> (crt_key = None)

\* C22 (amended): the expiry is UNIX_EPOCH while the watch holds None and the
\* valid_until of the CrtKey the watch holds afterwards; expiry and watch
\* change only in the step that stores a certified CrtKey, and a store that
\* fails for lack of observers changes neither.
ExpiryFollowsWatch ==
    /\ [](crt_key = None => expiry = UNIX_EPOCH)
    /\ [](crt_key # None => expiry = crt_key[1].expiry)
    /\ [][ expiry' # expiry \/ crt_key' # crt_key =>
              /\ last' = "Stored" /\ observers > 0
              /\ crt_key' = certified' /\ expiry' = crt_key'[1].expiry ]_vars
    /\ [][ last' = "NoObservers" => expiry' = expiry /\ crt_key' = crt_key ]_vars

\* C22 witness: the store of a certificate with a later valid_until failed
\* for lack of observers, and the expiry is still that of the CrtKey stored
\* before.
ExpiryKeptWithoutObservers ==
    /\ last = "NoObservers" /\ crt_key # None
    /\ certified[1].expiry > crt_key[1].expiry
    /\ expiry = crt_key[1].expiry

\* C23: a timer error moves the daemon from Waiting to ShouldRefresh like a
\* fired timer, without terminating it or changing the watch, and the
\* daemon's next step, the same poll's next iteration, issues the Certify
\* RPC and leaves it running.
TimerErrorRefreshesAtOnce ==
    [][ /\ last' = "TimerError" =>
              /\ inner = "Waiting" /\ inner' = "ShouldRefresh"
              /\ status' = "running" /\ crt_key' = crt_key
        /\ last = "TimerError" /\ <<inner, status>>' # <<inner, status>> =>
              /\ inner' = "Pending" /\ last' = "Certify"
              /\ status' = "running" /\ crt_key' = crt_key ]_vars

\* C24: the installed table changes only in a poll_ready whose stream has a
\* table ready; call changes neither table nor stream; a poll_ready on a
\* stream that is pending, ended or absent keeps table and map; and a router
\* without stream keeps the empty table and dispatches to the default route.
TableChangesOnlyInPollReady ==
    /\ [](route_stream = None =>
              /\ routes = <<>>
              /\ req # None => chosen = Some(default_route))
    /\ [][ /\ routes' # routes => last' = "poll_ready" /\ StreamReady # <<>>
           /\ last' = "call" =>
                  routes' = routes /\ route_stream' = route_stream /\ capacity' = capacity
           /\ last' = "poll_ready" /\ StreamReady = <<>> =>
                  routes' = routes /\ cache' = cache /\ capacity' = capacity ]_vars

\* C24 witness: poll_ready on an ended stream took nothing and the table
\* installed before is still there.
TableKeptAfterStreamEnd ==
    /\ last = "poll_ready" /\ taken = <<>>
    /\ route_stream # None /\ route_stream[1].ended
    /\ routes # <<>> /\ cache # {}

====
